---- MODULE Spec2Model ----
(***************************************************************************)
(* A model of elsa: the judged-transition engine of the airport border     *)
(* control simulator (src/src/game.rs), the judge and decision parser      *)
(* (src/src/llm.rs) and the scenario tree (src/src/game_tree.rs).          *)
(*                                                                         *)
(* LLM output is modelled as a sequence of lexemes (pieces of text that    *)
(* the two regular expressions of parse_decision cannot split any          *)
(* further); player input as a sequence of characters.                     *)
(***************************************************************************)
EXTENDS Integers, Sequences, FiniteSets, TLC

VARIABLES
    \* ---- run / play_round (game.rs) ----
    tree,             \* the GameTree handed to run
    pc,               \* where run / play_round stands
    round,            \* number of the round being played (1-based)
    current_node_id,  \* GameState.current_node_id
    conversation,     \* GameState.conversation
    steps_completed,  \* GameState.steps_completed
    total_steps,      \* play_round's local total_steps
    messages,         \* the message list of the latest judge call
    valid_choices,    \* the valid_choices of the latest judge call
    judged,           \* the latest judge call: node, steps before it, valid_choices,
                      \* generate's result, judge's result
    judge_calls,      \* judge calls made in this round
    input,            \* play_round's input: the player's latest line, as read
    outcome,          \* the GameOutcome of the round, once it has one
    run_result,       \* what run has returned: "running", Ok or Err
    \* ---- parse_decision (llm.rs) ----
    pieces,           \* how the raw text was put together (segment names)
    raw,              \* the raw LLM output handed to parse_decision
    result,           \* what parse_decision returned
    \* ---- GameTree::longest_path (game_tree.rs) ----
    stack,            \* the call stack of longest_path: one frame per call
    \* ---- LLM::generate (llm.rs) ----
    gen_pc,           \* where generate stands; "idle" between calls
    max_tokens,       \* LLM.max_tokens
    n_ctx,            \* LLM.n_ctx: the capacity of the inference context
    kv_cache,         \* the key-value state of LLM.ctx: one entry per decoded token
    tokens,           \* generate's tokens: the tokenized prompt
    batch,            \* generate's batch
    n_cur,            \* generate's n_cur
    iter,             \* iterations of the sampling loop that are over
    output,           \* generate's output
    decoder,          \* generate's decoder: TRUE while a lead byte is pending
    sampled,          \* the tokens sampled in this call, in order
    decoded,          \* the pieces token_to_piece returned in this call, in order
    gen_result,       \* what the call returned, until the next call begins
    last_end          \* how the latest call that returned ended

gameVars == <<tree, pc, round, current_node_id, conversation, steps_completed,
              total_steps, messages, valid_choices, judged, judge_calls,
              input, outcome, run_result>>
parseVars == <<pieces, raw, result>>
walkVars == <<stack>>
llmVars == <<gen_pc, max_tokens, n_ctx, kv_cache, tokens, batch, n_cur, iter,
             output, decoder, sampled, decoded, gen_result, last_end>>
vars == <<gameVars, parseVars, walkVars, llmVars>>

-----------------------------------------------------------------------------
(* Bounds *)

\* longest raw output, in segments, that parse_decision is tried on
MaxSegs == 4
\* rounds played before the player must answer the restart prompt with q
MaxRounds == 2
\* largest max_tokens and largest n_ctx the model is loaded with, and the
\* longest tokenized prompt
MaxTokens == 3
MaxCtx == 4
MaxPrompt == 2
\* frames of longest_path that the thread's stack has room for
StackLimit == 6

-----------------------------------------------------------------------------
(* Generic helpers *)

RECURSIVE Flatten(_)
Flatten(ss) == IF ss = <<>> THEN <<>> ELSE Head(ss) \o Flatten(Tail(ss))

SeqsUpTo(S, n) == UNION {[1..k -> S] : k \in 0..n}

Min(S) == CHOOSE x \in S : \A y \in S : x <= y
Max(S) == CHOOSE x \in S : \A y \in S : y <= x

-----------------------------------------------------------------------------
(* Text produced by the model: lexemes *)

Lx(kind) == [kind |-> kind, key |-> "", val |-> ""]
LB == Lx("{")
RB == Lx("}")
TO == Lx("<think>")
TC == Lx("</think>")
\* "<thi" and "nk>": text that is a <think> tag once the two halves touch
FO1 == Lx("<thi")
FO2 == Lx("nk>")
COMMA == Lx(",")
Prose == [kind |-> "text", key |-> "", val |-> "p"]
\* "key":"val"
StrMember(k, v) == [kind |-> "string", key |-> k, val |-> v]
\* "key":7
NumMember(k) == [kind |-> "number", key |-> k, val |-> "7"]
\* "key":"x   (a JSON string that is still open) and   y"   (its end)
StrOpen(k) == [kind |-> "stropen", key |-> k, val |-> "x"]
StrClose == [kind |-> "strclose", key |-> "", val |-> "y"]

\* {"decision":"d","reason":"r"}
ObjText(d, r) == <<LB, StrMember("decision", d), COMMA, StrMember("reason", r), RB>>

\* String concatenation: adjacent "<thi" and "nk>" are the text "<think>".
RECURSIVE Join(_)
Join(s) ==
    IF Len(s) < 2 THEN s
    ELSE IF s[1] = FO1 /\ s[2] = FO2
         THEN <<TO>> \o Join(SubSeq(s, 3, Len(s)))
         ELSE <<s[1]>> \o Join(Tail(s))

-----------------------------------------------------------------------------
(* parse_decision, llm.rs 281-304 *)

NoJsonFound == "no JSON object found in LLM output"
MalformedJson == "failed to parse JSON"

OkDecision(d, r) == [ok |-> TRUE, decision |-> d, reason |-> r, err |-> ""]
ErrResult(msg) == [ok |-> FALSE, decision |-> "", reason |-> "", err |-> msg]
NoResult == [ok |-> FALSE, decision |-> "", reason |-> "", err |-> "none"]

\* First index >= from where s holds lexeme x, 0 when there is none.
IndexFrom(s, x, from) ==
    LET hits == {i \in from..Len(s) : s[i] = x}
    IN IF hits = {} THEN 0 ELSE Min(hits)

\* re_think = (?s)<think>(.*?)</think> : replace_all(raw, "").
\* Leftmost <think>, up to the nearest </think> after it; the scan goes on
\* after the match. What is left is concatenated into one string.
RECURSIVE StripThinkFrom(_)
StripThinkFrom(s) ==
    LET i == IndexFrom(s, TO, 1)
        j == IF i = 0 THEN 0 ELSE IndexFrom(s, TC, i + 1)
    IN IF i = 0 \/ j = 0 THEN s
       ELSE SubSeq(s, 1, i - 1) \o StripThinkFrom(SubSeq(s, j + 1, Len(s)))

\* (?s)<think>(.*)</think> : from the first <think> to the last </think>
StripThinkMutantGreedy(s) ==
    LET i == IndexFrom(s, TO, 1)
        ends == {j \in (i + 1)..Len(s) : s[j] = TC}
    IN IF i = 0 \/ ends = {} THEN s
       ELSE Join(SubSeq(s, 1, i - 1) \o SubSeq(s, Max(ends) + 1, Len(s)))

StripThink(s) == Join(StripThinkFrom(s))

IsBrace(x) == x.kind \in {"{", "}"}

\* re_json = (?s)\{[^{}]*\} : find(cleaned). <<0, 0>> when nothing matches.
FindJson(s) ==
    LET starts == {i \in 1..Len(s) :
                     /\ s[i] = LB
                     /\ \E j \in (i + 1)..Len(s) :
                          /\ s[j] = RB
                          /\ \A k \in (i + 1)..(j - 1) : ~IsBrace(s[k])}
    IN IF starts = {} THEN <<0, 0>>
       ELSE LET i == Min(starts) IN <<i, IndexFrom(s, RB, i + 1)>>

\* The members of a JSON object body: member (, member)*, or nothing.
IsMember(x) == x.kind \in {"string", "number"}
WellFormedBody(body) ==
    \/ body = <<>>
    \/ /\ Len(body) % 2 = 1
       /\ \A i \in 1..Len(body) :
            IF i % 2 = 1 THEN IsMember(body[i]) ELSE body[i] = COMMA

\* serde_json::from_str::<LlmDecision>(json_str): both fields required, each
\* once and a string; other keys are skipped. Any failure is the one error
\* that parse_decision wraps as "failed to parse JSON".
SerdeFromStr(json_str) ==
    LET body == SubSeq(json_str, 2, Len(json_str) - 1)
        at(key) == {i \in 1..Len(body) : IsMember(body[i]) /\ body[i].key = key}
        ds == at("decision")
        rs == at("reason")
    IN IF /\ WellFormedBody(body)
          /\ Cardinality(ds) = 1 /\ Cardinality(rs) = 1
          /\ \A i \in ds \cup rs : body[i].kind = "string"
       THEN OkDecision(body[CHOOSE i \in ds : TRUE].val,
                       body[CHOOSE i \in rs : TRUE].val)
       ELSE ErrResult(MalformedJson)

\* Steps 2 and 3 of the parser on the text it is given, llm.rs 293-303
ExtractJsonMutantOneError(cleaned) ==
    LET m == FindJson(cleaned)
    IN IF m = <<0, 0>> THEN ErrResult(MalformedJson)
       ELSE SerdeFromStr(SubSeq(cleaned, m[1], m[2]))

ExtractJsonMutantFirstValid(cleaned) ==
    LET m == FindJson(cleaned)
        valid == {i \in 1..Len(cleaned) :
                    /\ cleaned[i] = LB
                    /\ IndexFrom(cleaned, RB, i + 1) # 0
                    /\ \A k \in (i + 1)..(IndexFrom(cleaned, RB, i + 1) - 1) :
                         ~IsBrace(cleaned[k])
                    /\ SerdeFromStr(SubSeq(cleaned, i,
                                           IndexFrom(cleaned, RB, i + 1))).ok}
    IN IF m = <<0, 0>> THEN ErrResult(NoJsonFound)
       ELSE IF valid = {} THEN SerdeFromStr(SubSeq(cleaned, m[1], m[2]))
       ELSE SerdeFromStr(SubSeq(cleaned, Min(valid),
                                IndexFrom(cleaned, RB, Min(valid) + 1)))

ExtractJson(cleaned) ==
    LET m == FindJson(cleaned)
    IN IF m = <<0, 0>> THEN ErrResult(NoJsonFound)
       ELSE SerdeFromStr(SubSeq(cleaned, m[1], m[2]))

parse_decision_MutantNoStrip(text) == ExtractJson(text)

parse_decision(text) == ExtractJson(StripThink(text))

-----------------------------------------------------------------------------
(* Raw outputs that parse_decision is tried on *)

Segs == {"P", "LB", "RB", "TO", "TC", "SPLIT",
         "OBJ_A", "OBJ_B", "OBJ_BRACE", "OBJ_NOREASON", "OBJ_NUM"}

Expand(seg) ==
    CASE seg = "P" -> <<Prose>>
      [] seg = "LB" -> <<LB>>
      [] seg = "RB" -> <<RB>>
      [] seg = "TO" -> <<TO>>
      [] seg = "TC" -> <<TC>>
         \* <thi<think>p</think>nk>
      [] seg = "SPLIT" -> <<FO1, TO, Prose, TC, FO2>>
      [] seg = "OBJ_A" -> ObjText("A", "ra")
      [] seg = "OBJ_B" -> ObjText("B", "rb")
         \* {"decision":"A","reason":"x}y"}
      [] seg = "OBJ_BRACE" -> <<LB, StrMember("decision", "A"), COMMA,
                                StrOpen("reason"), RB, StrClose, RB>>
         \* {"decision":"A"}
      [] seg = "OBJ_NOREASON" -> <<LB, StrMember("decision", "A"), RB>>
         \* {"decision":7,"reason":"ra"}
      [] seg = "OBJ_NUM" -> <<LB, NumMember("decision"), COMMA,
                              StrMember("reason", "ra"), RB>>

Text(ps) == Join(Flatten([i \in 1..Len(ps) |-> Expand(ps[i])]))

-----------------------------------------------------------------------------
(* Chat messages, llm.rs 32-57 *)

ChatMessage_system(content) == [role |-> "system", content |-> content]
ChatMessage_user(content) == [role |-> "user", content |-> content]
ChatMessage_assistant(content) == [role |-> "assistant", content |-> content]

-----------------------------------------------------------------------------
(* The scenario tree, game_tree.rs *)

\* GameNode. A text is a sequence of pieces; system_context is <<>> for None
\* and <<ctx>> for Some(ctx).
GameNode(id, transcript, terminal, is_success, next, ctx) ==
    [id |-> id, transcript |-> <<transcript>>, terminal |-> terminal,
     is_success |-> is_success, next_node_ids |-> next, system_context |-> ctx]

TerminalNode(id, transcript, is_success) ==
    GameNode(id, transcript, TRUE, is_success, <<>>, <<>>)

\* The map.insert loop of airport_security_scenario: id -> node.
TreeOf(nodes, start) ==
    [nodes |-> [id \in {n.id : n \in nodes} |-> CHOOSE n \in nodes : n.id = id],
     start_node_id |-> start]

airport_security_scenario ==
    TreeOf({
        GameNode("START", "Hello. Passport please.", FALSE, FALSE,
                 <<"PASSPORT_CHECK", "FAILED">>,
                 <<"CRITERIA: PASSPORT_CHECK hands over the passport; FAILED refuses">>),
        GameNode("PASSPORT_CHECK",
                 "Thank you. Let me take a look... Where are you travelling from today?",
                 FALSE, FALSE, <<"QUESTION_PURPOSE", "FAILED">>,
                 <<"CRITERIA: QUESTION_PURPOSE names a real place; FAILED is evasive">>),
        GameNode("QUESTION_PURPOSE", "And what is the purpose of your visit?",
                 FALSE, FALSE, <<"LUGGAGE_CHECK", "FAILED_SUSPICIOUS">>,
                 <<"The guard asked the purpose of the visit.">>),
        GameNode("LUGGAGE_CHECK", "Alright. Do you have anything to declare?",
                 FALSE, FALSE, <<"CLEARED", "FAILED_CONTRABAND">>,
                 <<"The guard asked about declarations.">>),
        TerminalNode("CLEARED",
                     "Everything checks out. Welcome, and enjoy your stay!", TRUE),
        TerminalNode("FAILED",
                     "Sir/Ma'am, I'm going to have to ask you to step aside. Security!",
                     FALSE),
        TerminalNode("FAILED_SUSPICIOUS",
                     "Your answers don't add up. Please follow me to secondary screening.",
                     FALSE),
        TerminalNode("FAILED_CONTRABAND",
                     "I'm going to need you to open your bags. Security has been notified.",
                     FALSE)},
        "START")

\* START --(PASSPORT_CHECK, FAILED)-->, both terminal.
one_question_scenario ==
    TreeOf({
        GameNode("START", "Hello. Passport please.", FALSE, FALSE,
                 <<"PASSPORT_CHECK", "FAILED">>, <<>>),
        TerminalNode("PASSPORT_CHECK", "Welcome.", TRUE),
        TerminalNode("FAILED", "Security!", FALSE)},
        "START")

\* Three options at the start, paths of different lengths.
three_option_scenario ==
    TreeOf({
        GameNode("START", "Papers.", FALSE, FALSE,
                 <<"SECOND", "DENIED", "CLEARED">>, <<"Pick the best match.">>),
        GameNode("SECOND", "Anything to declare?", FALSE, FALSE,
                 <<"CLEARED", "DENIED">>, <<>>),
        TerminalNode("CLEARED", "Welcome.", TRUE),
        TerminalNode("DENIED", "Step aside.", FALSE)},
        "START")

Trees == {airport_security_scenario, one_question_scenario, three_option_scenario}

\* GameTree::get: the node, or None
HasNode(t, id) == id \in DOMAIN t.nodes

\* Vec<String>::contains
Contains(seq, x) == \E i \in 1..Len(seq) : seq[i] = x

\* GameTree::longest_path, game_tree.rs 46-61
RECURSIVE longest_path(_, _)
longest_path(t, node_id) ==
    IF ~HasNode(t, node_id) THEN 0
    ELSE LET node == t.nodes[node_id]
         IN IF node.terminal THEN 0
            ELSE LET lens == {longest_path(t, node.next_node_ids[i]) :
                                i \in 1..Len(node.next_node_ids)}
                 IN 1 + (IF lens = {} THEN 0 ELSE Max(lens))

\* GameTree::total_steps, game_tree.rs 42-44
tree_total_steps(t) == longest_path(t, t.start_node_id)

-----------------------------------------------------------------------------
(* Player input: lines of characters, as read_line returns them *)

IsSpace(c) == c \in {" ", "\n", "\t", "\r"}

\* str::trim
RECURSIVE TrimStart(_)
TrimStart(s) == IF s # <<>> /\ IsSpace(Head(s)) THEN TrimStart(Tail(s)) ELSE s
RECURSIVE TrimEnd(_)
TrimEnd(s) ==
    IF s # <<>> /\ IsSpace(s[Len(s)]) THEN TrimEnd(SubSeq(s, 1, Len(s) - 1)) ELSE s
Trim(s) == TrimEnd(TrimStart(s))

Uppers == <<"A", "B", "C", "D", "E", "F", "G", "H", "I", "J", "K", "L", "M",
            "N", "O", "P", "Q", "R", "S", "T", "U", "V", "W", "X", "Y", "Z">>
Lowers == <<"a", "b", "c", "d", "e", "f", "g", "h", "i", "j", "k", "l", "m",
            "n", "o", "p", "q", "r", "s", "t", "u", "v", "w", "x", "y", "z">>

\* u8::to_ascii_lowercase
ToAsciiLower(c) ==
    IF \E i \in 1..Len(Uppers) : Uppers[i] = c
    THEN Lowers[CHOOSE i \in 1..Len(Uppers) : Uppers[i] = c]
    ELSE c

to_lowercase(s) == [i \in 1..Len(s) |-> ToAsciiLower(s[i])]

\* str::eq_ignore_ascii_case
eq_ignore_ascii_case(a, b) ==
    /\ Len(a) = Len(b)
    /\ \A i \in 1..Len(a) : ToAsciiLower(a[i]) = ToAsciiLower(b[i])

\* game.rs 214
IsQuitKeywordMutantCaseSensitive(text) ==
    \/ text = <<"q", "u", "i", "t">>
    \/ text = <<"e", "x", "i", "t">>

IsQuitKeyword(text) ==
    \/ eq_ignore_ascii_case(text, <<"q", "u", "i", "t">>)
    \/ eq_ignore_ascii_case(text, <<"e", "x", "i", "t">>)

\* What the player may type at [You]: (<<>> is end of input)
PlayerLines ==
    {<<>>,
     <<"\n">>,
     <<" ", "\t", "\n">>,
     <<"q", "u", "i", "t", "\n">>,
     <<"Q", "u", "I", "T", "\r", "\n">>,
     <<" ", "E", "X", "I", "T", " ", "\n">>,
     <<"h", "i", "\n">>,
     <<"e", "x", "i", "t", "s", "\n">>}

\* What the player may type at the restart prompt
RestartLines ==
    {<<>>, <<"r", "\n">>, <<" ", "R", "\n">>, <<"q", "\n">>, <<"Q", " ", "\n">>,
     <<"x", "\n">>}

-----------------------------------------------------------------------------
(* What LLM::generate may return to judge, llm.rs 201-274 *)

GenOk(text) == [ok |-> TRUE, text |-> text, err |-> ""]
GenErr(msg) == [ok |-> FALSE, text |-> <<>>, err |-> msg]
NoGen == GenErr("none")

\* the .context(...) of each fallible step of generate; batch.add has none
GenerateErrors ==
    {"failed to create chat messages", "model has no chat template",
     "failed to apply chat template", "tokenization failed", "batch add failed",
     "initial decode failed", "token_to_piece failed", "decode step failed"}

\* Ids the model may name: every node of the tree, and one that is no node.
NoSuchNode == "NOWHERE"
Namable(t) ==
    DOMAIN t.nodes
    \cup UNION {{t.nodes[id].next_node_ids[i] : i \in DOMAIN t.nodes[id].next_node_ids} :
                 id \in DOMAIN t.nodes}
    \cup {NoSuchNode}

GenerateTexts(t) ==
    {ObjText(d, "why") : d \in Namable(t)}
    \cup {<<TO, Prose, TC, Prose>> \o ObjText(d, "why") \o <<Prose>> : d \in Namable(t)}
    \cup {<<>>, <<Prose>>, <<TO, Prose>> \o ObjText(NoSuchNode, "why") \o <<TC>>,
          <<LB, StrMember("decision", NoSuchNode), RB>>,
          <<LB, NumMember("decision"), COMMA, StrMember("reason", "why"), RB>>}

GenerateResults(t) ==
    {GenErr(e) : e \in GenerateErrors} \cup {GenOk(x) : x \in GenerateTexts(t)}

\* LLM::load_model 147-160: a new inference context, the configuration kept
LlmLoaded(config_max_tokens, config_n_ctx) ==
    /\ gen_pc = "idle"
    /\ max_tokens = config_max_tokens
    /\ n_ctx = config_n_ctx
    /\ kv_cache = <<>>
    /\ tokens = <<>>
    /\ batch = <<>>
    /\ n_cur = 0
    /\ iter = 0
    /\ output = <<>>
    /\ decoder = FALSE
    /\ sampled = <<>>
    /\ decoded = <<>>
    /\ gen_result = NoGen
    /\ last_end = "none"

-----------------------------------------------------------------------------
(* LLM::judge, llm.rs 170-199 *)

InvalidDecision == "Judge generated invalid decision"

\* judge with generate's result given: generate's error is passed on (181),
\* then parse_decision's (184); a decision is returned only when valid_choices
\* contains it (186-191), otherwise judge bails (194-198).
judge_MutantNoValidation(gen, choices) ==
    IF ~gen.ok THEN ErrResult(gen.err) ELSE parse_decision(gen.text)

judge(gen, choices) ==
    IF ~gen.ok THEN ErrResult(gen.err)
    ELSE LET decision == parse_decision(gen.text)
         IN IF ~decision.ok THEN decision
            ELSE IF Contains(choices, decision.decision) THEN decision
            ELSE ErrResult(InvalidDecision)

-----------------------------------------------------------------------------
(* Prompt construction, game.rs 46-96 *)

SYSTEM_PROMPT == "You are a border security guard at an airport. ..."

\* [&str]::join(sep)
RECURSIVE join(_, _)
join(strs, sep) ==
    IF Len(strs) <= 1 THEN strs
    ELSE <<Head(strs), sep>> \o join(Tail(strs), sep)

PickOne == "Pick one: "
ReplyWithJson ==
    "\nReply with JSON only: {\"decision\": \"<PICK>\", \"reason\": \"<why>\"}. JSON must be valid."

\* build_judge_instruction: the node's system_context when it has one, then
\* "Pick one: " and the next ids joined by ", ", then the JSON instruction.
build_judge_instructionMutantReversed(node) ==
    (IF node.system_context = <<>> THEN <<>> ELSE node.system_context \o <<"\n\n">>)
    \o <<PickOne>>
    \o join([i \in 1..Len(node.next_node_ids) |->
               node.next_node_ids[Len(node.next_node_ids) + 1 - i]], ", ")
    \o <<ReplyWithJson>>

build_judge_instruction(node) ==
    (IF node.system_context = <<>> THEN <<>> ELSE node.system_context \o <<"\n\n">>)
    \o <<PickOne>> \o join(node.next_node_ids, ", ")
    \o <<ReplyWithJson>>

\* build_judge_messages: one system message, then the conversation so far.
build_judge_messagesMutantSystemLast(conv, node) ==
    conv
    \o <<ChatMessage_system(<<SYSTEM_PROMPT, " \n ">> \o build_judge_instruction(node))>>

build_judge_messages(conv, node) ==
    <<ChatMessage_system(<<SYSTEM_PROMPT, " \n ">> \o build_judge_instruction(node))>>
    \o conv

-----------------------------------------------------------------------------
(* The round and the run, game.rs 103-113 and 166-291 *)

NoOutcome ==
    [kind |-> "None", success |-> FALSE, steps_completed |-> 0, total_steps |-> 0,
     terminal_node_id |-> ""]
Quit ==
    [kind |-> "Quit", success |-> FALSE, steps_completed |-> 0, total_steps |-> 0,
     terminal_node_id |-> ""]
FinishedMutantAlwaysSuccess(success, steps, total, id) ==
    [kind |-> "Finished", success |-> TRUE, steps_completed |-> steps,
     total_steps |-> total, terminal_node_id |-> id]
FinishedMutantSwapped(success, steps, total, id) ==
    [kind |-> "Finished", success |-> success, steps_completed |-> total,
     total_steps |-> steps, terminal_node_id |-> id]
Finished(success, steps, total, id) ==
    [kind |-> "Finished", success |-> success, steps_completed |-> steps,
     total_steps |-> total, terminal_node_id |-> id]

Running == [done |-> FALSE, ok |-> FALSE, err |-> ""]
RunOk == [done |-> TRUE, ok |-> TRUE, err |-> ""]
RunErr(msg) == [done |-> TRUE, ok |-> FALSE, err |-> msg]

NoJudged ==
    [from |-> "", steps |-> 0, choices |-> <<>>, gen |-> NoGen, result |-> NoResult]

\* GameState::current_node (the unwrap panics when the id is no key)
current_node == tree.nodes[current_node_id]

\* GameState::new and play_round 167-168
FreshRoundMutantKeepsSteps(t) ==
    /\ current_node_id' = t.start_node_id
    /\ conversation' = <<>>
    /\ steps_completed' = steps_completed
    /\ total_steps' = tree_total_steps(t)
    /\ messages' = <<>>
    /\ valid_choices' = <<>>
    /\ judged' = NoJudged
    /\ judge_calls' = 0
    /\ input' = <<>>
    /\ outcome' = NoOutcome

FreshRound(t) ==
    /\ current_node_id' = t.start_node_id
    /\ conversation' = <<>>
    /\ steps_completed' = 0
    /\ total_steps' = tree_total_steps(t)
    /\ messages' = <<>>
    /\ valid_choices' = <<>>
    /\ judged' = NoJudged
    /\ judge_calls' = 0
    /\ input' = <<>>
    /\ outcome' = NoOutcome

Init ==
    /\ tree \in Trees
    /\ pc = "enter"
    /\ round = 1
    /\ current_node_id = tree.start_node_id
    /\ conversation = <<>>
    /\ steps_completed = 0
    /\ total_steps = tree_total_steps(tree)
    /\ messages = <<>>
    /\ valid_choices = <<>>
    /\ judged = NoJudged
    /\ judge_calls = 0
    /\ input = <<>>
    /\ outcome = NoOutcome
    /\ run_result = Running
    /\ pieces = <<>>
    /\ raw = <<>>
    /\ result = NoResult
    /\ stack = <<>>
    /\ LlmLoaded(MaxTokens, MaxCtx)

\* play_round 172-199: the top of the loop, up to the read of the player's line
EnterNode ==
    /\ pc = "enter"
    /\ IF ~HasNode(tree, current_node_id)
       THEN /\ pc' = "exited"
            /\ run_result' = RunErr("panic: unwrap on None")
            /\ UNCHANGED <<conversation, outcome>>
       ELSE /\ conversation' =
                Append(conversation, ChatMessage_assistant(current_node.transcript))
            /\ IF current_node.terminal
               THEN /\ outcome' = Finished(current_node.is_success, steps_completed,
                                           total_steps, current_node.id)
                    /\ pc' = "restart"
               ELSE /\ outcome' = outcome
                    /\ pc' = "read"
            /\ run_result' = run_result
    /\ UNCHANGED <<tree, round, current_node_id, steps_completed, total_steps,
                   messages, valid_choices, judged, judge_calls, input>>
    /\ UNCHANGED <<parseVars, walkVars, llmVars>>

\* play_round 208-212: what an empty input leaves of the conversation
OnEmptyInputMutantNoPop(conv) == conv

OnEmptyInput(conv) == SubSeq(conv, 1, Len(conv) - 1)

\* play_round 201-239: one line of the player, up to the call of judge
ReadInput(line) ==
    /\ pc = "read"
    /\ input' = line
    /\ LET trimmed == Trim(line)
       IN IF trimmed = <<>>
          THEN /\ conversation' = OnEmptyInput(conversation)
               /\ pc' = "enter"
               /\ UNCHANGED <<messages, valid_choices, outcome>>
          ELSE IF IsQuitKeyword(trimmed)
          THEN /\ outcome' = Quit
               /\ pc' = "restart"
               /\ UNCHANGED <<conversation, messages, valid_choices>>
          ELSE /\ conversation' = Append(conversation, ChatMessage_user(trimmed))
               /\ messages' = build_judge_messages(conversation', current_node)
               /\ valid_choices' = current_node.next_node_ids
               /\ pc' = "judge"
               /\ outcome' = outcome
    /\ UNCHANGED <<tree, round, current_node_id, steps_completed, total_steps,
                   judged, judge_calls, run_result>>
    /\ UNCHANGED <<parseVars, walkVars, llmVars>>

\* play_round 203/205: flushing stdout or reading stdin fails
ReadInputFails ==
    /\ pc = "read"
    /\ pc' = "exited"
    /\ run_result' = RunErr("io error")
    /\ UNCHANGED <<tree, round, current_node_id, conversation, steps_completed,
                   total_steps, messages, valid_choices, judged, judge_calls,
                   input, outcome>>
    /\ UNCHANGED <<parseVars, walkVars, llmVars>>

\* play_round 243-257: where the walker goes on a decision that judge returned
NextNodeIdMutantAlwaysFirst(node, decision) == node.next_node_ids[1]

NextNodeIdMutantReasonAsId(node, decision) == decision.reason

NextNodeId(node, decision) ==
    IF ~Contains(node.next_node_ids, decision.decision)
    THEN node.next_node_ids[1]
    ELSE decision.decision

\* play_round 260: the player survived this step
SurvivedStepMutantTwice(steps) == steps + 2

SurvivedStep(steps) == steps + 1

\* play_round 240-263: the judge call and the transition
Judge(gen) ==
    /\ pc = "judge"
    /\ judge_calls' = judge_calls + 1
    /\ LET decision == judge(gen, valid_choices)
       IN /\ judged' = [from |-> current_node_id, steps |-> steps_completed,
                        choices |-> valid_choices, gen |-> gen,
                        result |-> decision]
          /\ raw' = gen.text
          /\ result' = IF gen.ok THEN parse_decision(gen.text) ELSE NoResult
          /\ IF ~decision.ok
             THEN \* the ? of line 240: play_round returns the error, and so does run
                  /\ pc' = "exited"
                  /\ run_result' = RunErr(decision.err)
                  /\ UNCHANGED <<current_node_id, steps_completed>>
             ELSE /\ current_node_id' = NextNodeId(current_node, decision)
                  /\ steps_completed' = SurvivedStep(steps_completed)
                  /\ pc' = "enter"
                  /\ run_result' = run_result
    /\ UNCHANGED <<tree, round, conversation, total_steps, messages, valid_choices,
                   input, outcome, pieces>>
    /\ UNCHANGED <<walkVars, llmVars>>

\* run 280-288 with prompt_restart 148-160: one line at the restart prompt
PromptRestart(line) ==
    /\ pc = "restart"
    /\ LET choice == to_lowercase(Trim(line))
       IN IF choice = <<"r">>
          THEN /\ round < MaxRounds
               /\ round' = round + 1
               /\ FreshRound(tree)
               /\ pc' = "enter"
               /\ run_result' = run_result
          ELSE IF choice = <<"q">>
          THEN /\ pc' = "exited"
               /\ run_result' = RunOk
               /\ UNCHANGED <<round, current_node_id, conversation, steps_completed,
                              total_steps, messages, valid_choices, judged,
                              judge_calls, input, outcome>>
          ELSE UNCHANGED <<pc, run_result, round, current_node_id, conversation,
                           steps_completed, total_steps, messages, valid_choices,
                           judged, judge_calls, input, outcome>>
    /\ UNCHANGED tree
    /\ UNCHANGED <<parseVars, walkVars, llmVars>>

\* prompt_restart 151/153: flushing stdout or reading stdin fails
PromptRestartFails ==
    /\ pc = "restart"
    /\ pc' = "exited"
    /\ run_result' = RunErr("io error")
    /\ UNCHANGED <<tree, round, current_node_id, conversation, steps_completed,
                   total_steps, messages, valid_choices, judged, judge_calls,
                   input, outcome>>
    /\ UNCHANGED <<parseVars, walkVars, llmVars>>

Next ==
    \/ EnterNode
    \/ \E line \in PlayerLines : ReadInput(line)
    \/ ReadInputFails
    \/ \E gen \in GenerateResults(tree) : Judge(gen)
    \/ \E line \in RestartLines : PromptRestart(line)
    \/ PromptRestartFails

Spec == Init /\ [][Next]_vars

-----------------------------------------------------------------------------
(* parse_decision on its own: every raw output of up to MaxSegs segments *)

ParseInit ==
    /\ pieces \in SeqsUpTo(Segs, MaxSegs)
    /\ raw = Text(pieces)
    /\ result = NoResult
    /\ tree = one_question_scenario
    /\ pc = "parse"
    /\ round = 1
    /\ current_node_id = tree.start_node_id
    /\ conversation = <<>>
    /\ steps_completed = 0
    /\ total_steps = 0
    /\ messages = <<>>
    /\ valid_choices = <<>>
    /\ judged = NoJudged
    /\ judge_calls = 0
    /\ input = <<>>
    /\ outcome = NoOutcome
    /\ run_result = Running
    /\ stack = <<>>
    /\ LlmLoaded(MaxTokens, MaxCtx)

ParseDecision ==
    /\ pc = "parse"
    /\ result' = parse_decision(raw)
    /\ pc' = "parsed"
    /\ UNCHANGED <<tree, round, current_node_id, conversation, steps_completed,
                   total_steps, messages, valid_choices, judged, judge_calls,
                   input, outcome, run_result, pieces, raw>>
    /\ UNCHANGED <<walkVars, llmVars>>

ParseNext == ParseDecision

SpecParse == ParseInit /\ [][ParseNext]_vars

-----------------------------------------------------------------------------
(* GameTree::total_steps on its own: every tree of up to MaxNodes nodes with
   no cycle, the recursion of longest_path run call by call *)

\* nodes of the trees that total_steps is tried on
MaxNodes == 3

NodeIds == <<"START", "A", "B", "C", "D", "E">>

\* No cycle: the next ids of the k-th node name later nodes, or no node at
\* all; any number of them, in any order, each once.
OptionLists(k) ==
    LET targets == {NodeIds[j] : j \in (k + 1)..MaxNodes} \cup {NoSuchNode}
    IN {next \in SeqsUpTo(targets, Cardinality(targets)) :
          \A i \in 1..Len(next) : \A j \in 1..Len(next) :
              next[i] = next[j] => i = j}

NodeChoices(k) ==
    {TerminalNode(NodeIds[k], "Welcome.", TRUE)}
    \cup {GameNode(NodeIds[k], "Next question.", FALSE, FALSE, next, <<>>) :
            next \in OptionLists(k)}

RECURSIVE NodeLists(_)
NodeLists(k) ==
    IF k = 0 THEN {<<>>}
    ELSE {Append(g, n) : g \in NodeLists(k - 1), n \in NodeChoices(k)}

AcyclicTrees ==
    {TreeOf({g[k] : k \in 1..MaxNodes}, NodeIds[1]) : g \in NodeLists(MaxNodes)}

\* Option<usize>: None
None == -1

\* One call of longest_path(node_id): not yet past the lookup and the terminal
\* test (entered = FALSE), or in the iteration over next_node_ids, about to
\* visit the i-th id with max_child the maximum so far.
Frame(node_id) == [node_id |-> node_id, entered |-> FALSE, i |-> 1, max_child |-> None]

\* Iterator::max, one element further
FoldMaxMutantLast(max_child, v) == v

FoldMax(max_child, v) == IF max_child = None \/ v >= max_child THEN v ELSE max_child

\* Option::unwrap_or(0)
unwrap_or_0(max_child) == IF max_child = None THEN 0 ELSE max_child

\* The top call returns v: to its caller's iteration, or to total_steps.
Return(v) ==
    LET rest == SubSeq(stack, 1, Len(stack) - 1)
    IN IF rest = <<>>
       THEN /\ stack' = <<>>
            /\ total_steps' = v
            /\ pc' = "counted"
       ELSE /\ stack' = [rest EXCEPT ![Len(rest)] =
                            [@ EXCEPT !.max_child = FoldMax(@, v), !.i = @ + 1]]
            /\ UNCHANGED <<total_steps, pc>>

TopFrame == stack[Len(stack)]

TotalStepsInit ==
    /\ tree \in AcyclicTrees
    /\ pc = "count"
    /\ stack = <<Frame(tree.start_node_id)>>
    /\ LlmLoaded(MaxTokens, MaxCtx)
    /\ total_steps = 0
    /\ round = 1
    /\ current_node_id = tree.start_node_id
    /\ conversation = <<>>
    /\ steps_completed = 0
    /\ messages = <<>>
    /\ valid_choices = <<>>
    /\ judged = NoJudged
    /\ judge_calls = 0
    /\ input = <<>>
    /\ outcome = NoOutcome
    /\ run_result = Running
    /\ pieces = <<>>
    /\ raw = <<>>
    /\ result = NoResult

WalkFrame ==
    UNCHANGED <<tree, round, current_node_id, conversation, steps_completed,
                messages, valid_choices, judged, judge_calls, input, outcome,
                run_result, parseVars, llmVars>>

\* longest_path 47-53: the lookup and the terminal test
LongestPathEnter ==
    /\ pc = "count"
    /\ ~TopFrame.entered
    /\ IF ~HasNode(tree, TopFrame.node_id) THEN Return(0)
       ELSE IF tree.nodes[TopFrame.node_id].terminal THEN Return(0)
       ELSE /\ stack' = [stack EXCEPT ![Len(stack)].entered = TRUE]
            /\ UNCHANGED <<total_steps, pc>>
    /\ WalkFrame

\* longest_path 54-57: the next id of the iteration, a recursive call
LongestPathDescendMutantSkips ==
    /\ pc = "count"
    /\ TopFrame.entered
    /\ TopFrame.i <= Len(tree.nodes[TopFrame.node_id].next_node_ids)
    /\ stack' = [stack EXCEPT ![Len(stack)] =
                    [@ EXCEPT !.max_child = FoldMax(@, 0), !.i = @ + 1]]
    /\ UNCHANGED <<total_steps, pc>>
    /\ WalkFrame

LongestPathDescend ==
    /\ pc = "count"
    /\ TopFrame.entered
    /\ TopFrame.i <= Len(tree.nodes[TopFrame.node_id].next_node_ids)
    /\ stack' = Append(stack, Frame(tree.nodes[TopFrame.node_id].next_node_ids[TopFrame.i]))
    /\ UNCHANGED <<total_steps, pc>>
    /\ WalkFrame

\* longest_path 58-60: the iteration is over
LongestPathReturn ==
    /\ pc = "count"
    /\ TopFrame.entered
    /\ TopFrame.i > Len(tree.nodes[TopFrame.node_id].next_node_ids)
    /\ Return(1 + unwrap_or_0(TopFrame.max_child))
    /\ WalkFrame

TotalStepsNext == LongestPathEnter \/ LongestPathDescend \/ LongestPathReturn

\* The recursion is a computation of one thread that nothing suspends.
SpecTotalSteps ==
    TotalStepsInit /\ [][TotalStepsNext]_vars /\ WF_vars(TotalStepsNext)

-----------------------------------------------------------------------------
(* LLM::generate on its own, llm.rs 201-274: call after call on one context *)

\* Token ids: the end-of-generation marker, a token of one ASCII byte, and
\* two tokens that split the two bytes of one character between them.
EOG == "EOG"
T_A == "T_A"
T_LEAD == "T_LEAD"
T_CONT == "T_CONT"
Vocabulary == {EOG, T_A, T_LEAD, T_CONT}
\* a token of the rendered prompt
T_PROMPT == "T_PROMPT"

\* LlamaModel::is_eog_token
is_eog_token(tok) == tok = EOG

\* LlamaModel::token_to_piece with the streaming UTF-8 decoder: the text that
\* the token's bytes complete, and whether a lead byte is left pending. A
\* byte that cannot go on the pending one turns it into U+FFFD.
token_to_piece(tok, pending) ==
    CASE tok = T_A ->
           [piece |-> (IF pending THEN <<"U+FFFD">> ELSE <<>>) \o <<"a">>,
            pending |-> FALSE]
      [] tok = T_LEAD ->
           [piece |-> (IF pending THEN <<"U+FFFD">> ELSE <<>>), pending |-> TRUE]
      [] tok = T_CONT ->
           [piece |-> (IF pending THEN <<"e_acute">> ELSE <<"U+FFFD">>),
            pending |-> FALSE]

\* String::push_str
push_strMutantPrepend(out, piece) == piece \o out

push_str(out, piece) == out \o piece

\* LlamaContext::clear_kv_cache
clear_kv_cacheMutantKeep(kv) == [k \in 1..Len(kv) |-> [kv[k] EXCEPT !.stale = TRUE]]

clear_kv_cache(kv) == <<>>

\* for _ in 0..self.max_tokens: another iteration after i of them
in_rangeMutantInclusive(i, n) == i <= n

in_range(i, n) == i < n

\* LlamaBatch::add(token, pos, &[0], logits)
BatchEntryMutantNextPos(tok, pos, logits) ==
    [tok |-> tok, pos |-> pos + 1, logits |-> logits]

BatchEntry(tok, pos, logits) == [tok |-> tok, pos |-> pos, logits |-> logits]

\* What decode leaves in the context of the first n tokens of a batch
KvOf(b, n) == [k \in 1..n |-> [tok |-> b[k].tok, pos |-> b[k].pos, stale |-> FALSE]]

GenFrame ==
    UNCHANGED <<gameVars, parseVars, walkVars, max_tokens, n_ctx>>

\* generate returns: the result goes to the caller
GenerateReturns(res, how) ==
    /\ gen_result' = res
    /\ last_end' = how
    /\ gen_pc' = "idle"

GenerateInit ==
    /\ max_tokens \in 0..MaxTokens
    /\ n_ctx \in 1..MaxCtx
    /\ LlmLoaded(max_tokens, n_ctx)
    /\ tree = one_question_scenario
    /\ pc = "generate"
    /\ round = 1
    /\ current_node_id = tree.start_node_id
    /\ conversation = <<>>
    /\ steps_completed = 0
    /\ total_steps = 0
    /\ messages = <<>>
    /\ valid_choices = <<>>
    /\ judged = NoJudged
    /\ judge_calls = 0
    /\ input = <<>>
    /\ outcome = NoOutcome
    /\ run_result = Running
    /\ pieces = <<>>
    /\ raw = <<>>
    /\ result = NoResult
    /\ stack = <<>>

\* generate 202-229: the context is cleared, the prompt rendered and tokenized
GenerateCall(n_prompt) ==
    /\ gen_pc = "idle"
    /\ kv_cache' = clear_kv_cache(kv_cache)
    /\ tokens' = [k \in 1..n_prompt |-> T_PROMPT]
    /\ batch' = <<>>
    /\ n_cur' = 0
    /\ iter' = 0
    /\ output' = <<>>
    /\ decoder' = FALSE
    /\ sampled' = <<>>
    /\ decoded' = <<>>
    /\ gen_result' = NoGen
    /\ gen_pc' = "batch"
    /\ UNCHANGED last_end
    /\ GenFrame

\* generate 207-229: the context is cleared, then the chat messages, the
\* template or the tokenizer fail
GenerateCallFails(err) ==
    /\ gen_pc = "idle"
    /\ kv_cache' = clear_kv_cache(kv_cache)
    /\ tokens' = <<>>
    /\ batch' = <<>>
    /\ n_cur' = 0
    /\ iter' = 0
    /\ output' = <<>>
    /\ decoder' = FALSE
    /\ sampled' = <<>>
    /\ decoded' = <<>>
    /\ GenerateReturns(GenErr(err), "error before decoding")
    /\ GenFrame

\* generate 233-237: the prompt batch; add fails on a token beyond n_ctx
PromptBatch ==
    /\ gen_pc = "batch"
    /\ IF Len(tokens) > n_ctx
       THEN /\ batch' = [k \in 1..n_ctx |-> BatchEntry(tokens[k], k - 1, FALSE)]
            /\ GenerateReturns(GenErr("batch add failed"), "error before decoding")
       ELSE /\ batch' = [k \in 1..Len(tokens) |->
                           BatchEntry(tokens[k], k - 1, k - 1 = Len(tokens) - 1)]
            /\ gen_pc' = "decode_prompt"
            /\ UNCHANGED <<gen_result, last_end>>
    /\ UNCHANGED <<kv_cache, tokens, n_cur, iter, output, decoder, sampled, decoded>>
    /\ GenFrame

\* generate 238-244: the prompt batch is decoded
DecodePrompt ==
    /\ gen_pc = "decode_prompt"
    /\ Len(kv_cache) + Len(batch) <= n_ctx
    /\ kv_cache' = kv_cache \o KvOf(batch, Len(batch))
    /\ n_cur' = Len(batch)
    /\ gen_pc' = "loop"
    /\ UNCHANGED <<tokens, batch, iter, output, decoder, sampled, decoded,
                   gen_result, last_end>>
    /\ GenFrame

\* generate 238-240: decode fails; what it has put in the context by then is
\* any part of the batch
DecodePromptFails(n_done) ==
    /\ gen_pc = "decode_prompt"
    /\ n_done <= Len(batch)
    /\ Len(kv_cache) + n_done <= n_ctx
    /\ kv_cache' = kv_cache \o KvOf(batch, n_done)
    /\ GenerateReturns(GenErr("initial decode failed"), "error in decoding")
    /\ UNCHANGED <<tokens, batch, n_cur, iter, output, decoder, sampled, decoded>>
    /\ GenFrame

\* generate 246-262: one token is sampled; the end marker ends the loop, any
\* other token is decoded to text, appended, and put in a batch of its own
Sample(tok) ==
    /\ gen_pc = "loop"
    /\ in_range(iter, max_tokens)
    /\ sampled' = Append(sampled, tok)
    /\ IF is_eog_token(tok)
       THEN /\ GenerateReturns(GenOk(output), "end marker")
            /\ UNCHANGED <<output, decoder, decoded, batch>>
       ELSE LET p == token_to_piece(tok, decoder)
            IN /\ output' = push_str(output, p.piece)
               /\ decoder' = p.pending
               /\ decoded' = Append(decoded, p.piece)
               /\ batch' = <<BatchEntry(tok, n_cur, TRUE)>>
               /\ gen_pc' = "decode_step"
               /\ UNCHANGED <<gen_result, last_end>>
    /\ UNCHANGED <<kv_cache, tokens, n_cur, iter>>
    /\ GenFrame

\* generate 255-258: token_to_piece fails on the sampled token
SampleFails(tok) ==
    /\ gen_pc = "loop"
    /\ in_range(iter, max_tokens)
    /\ ~is_eog_token(tok)
    /\ sampled' = Append(sampled, tok)
    /\ GenerateReturns(GenErr("token_to_piece failed"), "error in decoding")
    /\ UNCHANGED <<kv_cache, tokens, batch, n_cur, iter, output, decoder, decoded>>
    /\ GenFrame

\* generate 263-264: the sampled token is decoded; the context has room for it
DecodeStep ==
    /\ gen_pc = "decode_step"
    /\ Len(kv_cache) < n_ctx
    /\ kv_cache' = kv_cache \o KvOf(batch, 1)
    /\ n_cur' = n_cur + 1
    /\ iter' = iter + 1
    /\ gen_pc' = "loop"
    /\ UNCHANGED <<tokens, batch, output, decoder, sampled, decoded, gen_result,
                   last_end>>
    /\ GenFrame

\* generate 263: decode fails, as it must when the context is full
DecodeStepFails(n_done) ==
    /\ gen_pc = "decode_step"
    /\ Len(kv_cache) + n_done <= n_ctx
    /\ kv_cache' = kv_cache \o KvOf(batch, n_done)
    /\ GenerateReturns(GenErr("decode step failed"), "error in decoding")
    /\ UNCHANGED <<tokens, batch, n_cur, iter, output, decoder, sampled, decoded>>
    /\ GenFrame

\* generate 246 and 267-273: max_tokens iterations are over
LoopEnds ==
    /\ gen_pc = "loop"
    /\ ~in_range(iter, max_tokens)
    /\ GenerateReturns(GenOk(output), "max_tokens")
    /\ UNCHANGED <<kv_cache, tokens, batch, n_cur, iter, output, decoder, sampled,
                   decoded>>
    /\ GenFrame

\* the errors of generate before the prompt batch is built
SetupErrors ==
    {"failed to create chat messages", "model has no chat template",
     "failed to apply chat template", "tokenization failed"}

\* The steps of a call that has begun
GenerateStep ==
    \/ PromptBatch
    \/ DecodePrompt
    \/ \E n_done \in 0..MaxPrompt : DecodePromptFails(n_done)
    \/ \E tok \in Vocabulary : Sample(tok)
    \/ \E tok \in Vocabulary : SampleFails(tok)
    \/ DecodeStep
    \/ \E n_done \in 0..1 : DecodeStepFails(n_done)
    \/ LoopEnds

GenerateNext ==
    \/ \E n_prompt \in 1..MaxPrompt : GenerateCall(n_prompt)
    \/ \E err \in SetupErrors : GenerateCallFails(err)
    \/ GenerateStep

\* generate runs on the caller's thread: a call that has begun goes on until
\* it returns. Nothing obliges the caller to call again.
SpecGenerate ==
    GenerateInit /\ [][GenerateNext]_vars /\ WF_vars(GenerateStep)

-----------------------------------------------------------------------------
(* The scenario that main loads, game/tree.rs and game/node.rs, and other
   trees that break the invariants of the data model; run on any tree, with
   the recursion of total_steps run call by call at the start of the round *)

\* NodeType and NextNode, game/node.rs 17-31
NextNode(id, description) == [id |-> id, description |-> description]
Terminal(is_success) ==
    [terminal |-> TRUE, is_success |-> is_success, options |-> <<>>]
Decision(options) ==
    [terminal |-> FALSE, is_success |-> FALSE, options |-> options]

\* GameNode of game/node.rs 5-15, as the walker reads it: terminal and
\* is_success of the node type, the ids of the options as next_node_ids
NodeOfType(id, transcript, node_type, ctx) ==
    GameNode(id, transcript, node_type.terminal, node_type.is_success,
             [i \in 1..Len(node_type.options) |-> node_type.options[i].id], ctx)

\* game/tree.rs 50-150
airport_security_scenario_of_main ==
    TreeOf({
        NodeOfType("START", "Hello. Passport please.",
            Decision(<<NextNode("PASSPORT_CHECK", "User proceeds to get his passport checked"),
                       NextNode("FAILED", "User failed the border inspection")>>),
            <<>>),
        NodeOfType("PASSPORT_CHECK",
            "Thank you. Let me take a look... Where are you travelling from today?",
            Decision(<<NextNode("QUESTION_PURPOSE",
                                "User answered appropriately. Proceeding with the questioning."),
                       NextNode("FAILED", "User failed the questioning.")>>),
            <<"EXAMPLES FOR PROPER RESPONSES: ...">>),
        NodeOfType("QUESTION_PURPOSE", "And what is the purpose of your visit?",
            Decision(<<NextNode("LUGGAGE_CHECK",
                                "User answered appropriately. Proceed to luggage check."),
                       NextNode("FAILED", "User failed the questioning.")>>),
            <<>>),
        NodeOfType("LUGGAGE_CHECK", "Alright. Do you have anything to declare?",
            Decision(<<NextNode("CLEARED",
                                "traveller says nothing to declare or lists normal items."),
                       NextNode("FAILED_CONTRABAND",
                                "traveller mentions illegal items, acts nervous, or is suspicious.")>>),
            <<"The guard asked about declarations.\n">>),
        NodeOfType("CLEARED", "Everything checks out. Welcome, and enjoy your stay!",
                   Terminal(TRUE), <<>>),
        NodeOfType("FAILED", "I'm going to have to ask you to step aside. Security!",
                   Terminal(FALSE), <<>>)},
        "START")

\* start_node_id names no node
missing_start_scenario ==
    TreeOf({TerminalNode("CLEARED", "Welcome.", TRUE)}, "START")

\* START offers FAILED, which is no node
dangling_scenario ==
    TreeOf({
        GameNode("START", "Hello. Passport please.", FALSE, FALSE,
                 <<"PASSPORT_CHECK", "FAILED">>, <<>>),
        TerminalNode("PASSPORT_CHECK", "Welcome.", TRUE)},
        "START")

\* START and PASSPORT_CHECK offer each other
cyclic_scenario ==
    TreeOf({
        GameNode("START", "Hello. Passport please.", FALSE, FALSE,
                 <<"PASSPORT_CHECK", "FAILED">>, <<>>),
        GameNode("PASSPORT_CHECK", "Passport again, please.", FALSE, FALSE,
                 <<"FAILED", "START">>, <<>>),
        TerminalNode("FAILED", "Security!", FALSE)},
        "START")

\* a cycle that the start node does not lead to
unreachable_cycle_scenario ==
    TreeOf({
        GameNode("START", "Hello. Passport please.", FALSE, FALSE, <<"CLEARED">>, <<>>),
        GameNode("A", "Again?", FALSE, FALSE, <<"B">>, <<>>),
        GameNode("B", "And again?", FALSE, FALSE, <<"A">>, <<>>),
        TerminalNode("CLEARED", "Welcome.", TRUE)},
        "START")

AnyTrees ==
    {airport_security_scenario_of_main, missing_start_scenario, dangling_scenario,
     cyclic_scenario, unreachable_cycle_scenario}

\* play_round 166-168 on one of the trees: GameState::new, total_steps called
PlayRoundInit(trees) ==
    /\ tree \in trees
    /\ pc = "count"
    /\ stack = <<Frame(tree.start_node_id)>>
    /\ total_steps = 0
    /\ round = 1
    /\ current_node_id = tree.start_node_id
    /\ conversation = <<>>
    /\ steps_completed = 0
    /\ messages = <<>>
    /\ valid_choices = <<>>
    /\ judged = NoJudged
    /\ judge_calls = 0
    /\ input = <<>>
    /\ outcome = NoOutcome
    /\ run_result = Running
    /\ pieces = <<>>
    /\ raw = <<>>
    /\ result = NoResult
    /\ LlmLoaded(MaxTokens, MaxCtx)

AnyTreeInit == PlayRoundInit(AnyTrees)

\* a recursive call while the stack has room for its frame
LongestPathDescendInStack ==
    /\ Len(stack) < StackLimit
    /\ LongestPathDescend

\* a recursive call that the stack has no room for: the process is aborted
StackOverflow ==
    /\ pc = "count"
    /\ TopFrame.entered
    /\ TopFrame.i <= Len(tree.nodes[TopFrame.node_id].next_node_ids)
    /\ Len(stack) >= StackLimit
    /\ pc' = "exited"
    /\ run_result' = RunErr("abort: stack overflow")
    /\ UNCHANGED <<tree, round, current_node_id, conversation, steps_completed,
                   total_steps, messages, valid_choices, judged, judge_calls,
                   input, outcome>>
    /\ UNCHANGED <<parseVars, walkVars, llmVars>>

\* play_round 168-172: total_steps has returned, the loop begins
BeginRound ==
    /\ pc = "counted"
    /\ pc' = "enter"
    /\ UNCHANGED <<tree, round, current_node_id, conversation, steps_completed,
                   total_steps, messages, valid_choices, judged, judge_calls,
                   input, outcome, run_result>>
    /\ UNCHANGED <<parseVars, walkVars, llmVars>>

AnyTreeNext ==
    \/ LongestPathEnter
    \/ LongestPathDescendInStack
    \/ LongestPathReturn
    \/ StackOverflow
    \/ BeginRound
    \/ Next

SpecAnyTree == AnyTreeInit /\ [][AnyTreeNext]_vars

-----------------------------------------------------------------------------
(* Properties of the walker and the judge *)

\* The node the latest judge call was made at, and its options
JudgedNode == tree.nodes[judged.from]
JudgedOptions == JudgedNode.next_node_ids

\* The latest judge call got text from generate and parse_decision read a
\* decision out of it that names no option of the node.
ParsedInvalidChoice ==
    /\ judged.gen.ok
    /\ result.ok
    /\ ~Contains(JudgedOptions, result.decision)

\* The latest judge call failed in generate or in parse_decision.
GenerationOrParseFailed ==
    \/ ~judged.gen.ok /\ judged.gen.err \in GenerateErrors
    \/ judged.gen.ok /\ ~result.ok /\ result.err \in {NoJsonFound, MalformedJson}

\* C1: when the decision read from the judge's output names a choice that is
\* not one of the node's options, the walker is at the node's first option,
\* steps_completed is one more than before the call, and the run has not
\* ended with the invalid-choice error.
C1_InvalidChoiceFallsBackToFirst ==
    ParsedInvalidChoice =>
        /\ current_node_id = JudgedOptions[1]
        /\ steps_completed = judged.steps + 1
        /\ ~(run_result.done /\ run_result.err = InvalidDecision)

\* C2: a generation failure or a parse failure during a judge call does not
\* end the run with that error; the walker is at the first option of the node
\* the call was made at.
C2_JudgeFailureIsNotFatal ==
    GenerationOrParseFailed =>
        /\ ~(run_result.done /\ ~run_result.ok
             /\ run_result.err \in GenerateErrors \cup {NoJsonFound, MalformedJson})
        /\ current_node_id = JudgedOptions[1]

\* C3: when judge returns a decision whose choice is one of the node's next
\* ids, current_node_id is exactly that choice, and the round goes on from
\* there (the walker enters that node next).
C3_ValidChoiceIsTaken ==
    (judged.result.ok /\ Contains(JudgedOptions, judged.result.decision)) =>
        /\ current_node_id = judged.result.decision
        /\ steps_completed = judged.steps + 1
        /\ ~(run_result.done /\ ~run_result.ok /\ run_result.err # "io error")

C3_Witness ==
    /\ judged.result.ok
    /\ Len(JudgedOptions) >= 2
    /\ judged.result.decision = JudgedOptions[2]
    /\ current_node_id = JudgedOptions[2]
    /\ pc = "enter"

\* The lines of PlayerLines that are a quit keyword once trimmed
QuitLines ==
    {<<"q", "u", "i", "t", "\n">>,
     <<"Q", "u", "I", "T", "\r", "\n">>,
     <<" ", "E", "X", "I", "T", " ", "\n">>}

\* The step that reads one line of the player at a Decision node
ReadsLine == pc = "read" /\ pc' # "exited"

\* C4: a player line that is a quit keyword, trimmed and in any letter case,
\* ends the round with outcome Quit; no judge call is made for it and nothing
\* is added to the conversation.
C4_QuitKeywordEndsRound ==
    [][(ReadsLine /\ input' \in QuitLines) =>
          /\ outcome' = Quit
          /\ pc' = "restart"
          /\ judge_calls' = judge_calls
          /\ messages' = messages
          /\ conversation' = conversation]_vars

C4_Witness ==
    /\ input = <<"Q", "u", "I", "T", "\r", "\n">>
    /\ outcome = Quit
    /\ current_node_id = "QUESTION_PURPOSE"
    /\ judge_calls = 2

\* The lines of PlayerLines that are empty once trimmed
EmptyLines == {<<>>, <<"\n">>, <<" ", "\t", "\n">>}

\* What the conversation of a round looks like while the player is prompted:
\* assistant and user messages in turn, one pair per judged turn, and the
\* current node's transcript once, at the end.
PromptedConversation ==
    /\ Len(conversation) = 2 * judge_calls + 1
    /\ \A i \in 1..Len(conversation) :
         conversation[i].role = (IF i % 2 = 1 THEN "assistant" ELSE "user")
    /\ conversation[Len(conversation)] = ChatMessage_assistant(current_node.transcript)

\* C5: an empty line at a Decision node leaves current_node_id and
\* steps_completed as they were and makes no judge call; whenever the player
\* is prompted, also after any number of empty lines, the conversation holds
\* the node's transcript once, at its end.
C5_EmptyInputChangesNothing ==
    /\ [][(ReadsLine /\ input' \in EmptyLines) =>
            /\ current_node_id' = current_node_id
            /\ steps_completed' = steps_completed
            /\ judge_calls' = judge_calls
            /\ pc' = "enter"]_vars
    /\ [][(pc = "enter" /\ input \in EmptyLines /\ conversation # <<>>) =>
            Len(conversation') = Len(conversation) + 1]_vars
    /\ [](pc = "read" => PromptedConversation)

C5_Witness ==
    /\ pc = "read"
    /\ input = <<" ", "\t", "\n">>
    /\ current_node_id = "PASSPORT_CHECK"
    /\ Len(conversation) = 3

\* C6: entering a Terminal node appends its transcript as an Assistant
\* message and ends the round Finished with the node's success flag, without
\* a line being read or a judge call being made; once the round has an
\* outcome, Finished or Quit, nothing of the round changes any more.
C6_TerminalNodeFinishes ==
    /\ [][(pc = "enter" /\ HasNode(tree, current_node_id) /\ current_node.terminal) =>
            /\ conversation' =
                 Append(conversation, ChatMessage_assistant(current_node.transcript))
            /\ outcome'.kind = "Finished"
            /\ outcome'.success = current_node.is_success
            /\ pc' = "restart"
            /\ judge_calls' = judge_calls
            /\ input' = input]_vars
    /\ [][(outcome.kind # "None" /\ round' = round) =>
            /\ outcome' = outcome
            /\ current_node_id' = current_node_id
            /\ conversation' = conversation
            /\ steps_completed' = steps_completed
            /\ judge_calls' = judge_calls
            /\ pc' \in {"restart", "exited"}]_vars

C6_Witness ==
    /\ outcome.kind = "Finished"
    /\ ~outcome.success
    /\ current_node_id = "FAILED_SUSPICIOUS"
    /\ conversation[Len(conversation)] =
         ChatMessage_assistant(tree.nodes["FAILED_SUSPICIOUS"].transcript)

\* The Decision nodes whose transcript the conversation holds: the nodes the
\* player was at and is past once the round is Finished.
DecisionNodesPassed ==
    Cardinality({i \in 1..Len(conversation) :
                   /\ conversation[i].role = "assistant"
                   /\ \E id \in DOMAIN tree.nodes :
                        /\ ~tree.nodes[id].terminal
                        /\ tree.nodes[id].transcript = conversation[i].content})

\* C7: the outcome of a Finished round names the Terminal node reached, its
\* success flag, the tree's longest path as total_steps and the number of
\* Decision nodes passed as steps_completed; one judged turn from START into
\* the success terminal gives success, one step, PASSPORT_CHECK.
C7_FinishedOutcomeReport ==
    /\ outcome.kind = "Finished" =>
         /\ outcome.terminal_node_id = current_node_id
         /\ tree.nodes[current_node_id].terminal
         /\ outcome.success = tree.nodes[current_node_id].is_success
         /\ outcome.total_steps = tree_total_steps(tree)
         /\ outcome.steps_completed = DecisionNodesPassed
         /\ outcome.steps_completed = judge_calls
    /\ (/\ tree = one_question_scenario
        /\ outcome.kind = "Finished"
        /\ judged.result = OkDecision("PASSPORT_CHECK", "why")) =>
         outcome = Finished(TRUE, 1, 1, "PASSPORT_CHECK")

C7_Witness ==
    /\ tree = three_option_scenario
    /\ outcome = Finished(TRUE, 1, 2, "CLEARED")

\* C8: judge returns a decision only when valid_choices contains its choice;
\* a parsed choice that valid_choices does not contain makes judge fail with
\* the invalid-decision error, which no failure of generate and no failure of
\* parse_decision produces.
C8_JudgeValidatesChoice ==
    /\ judged.result.ok =>
         /\ Contains(judged.choices, judged.result.decision)
         /\ judged.result = result
    /\ ParsedInvalidChoice =>
         /\ ~Contains(judged.choices, result.decision)
         /\ judged.result = ErrResult(InvalidDecision)
    /\ GenerationOrParseFailed =>
         /\ ~judged.result.ok
         /\ judged.result.err # InvalidDecision
         /\ judged.result.err = (IF judged.gen.ok THEN result.err ELSE judged.gen.err)

C8_Witness ==
    /\ judged.result = ErrResult(InvalidDecision)
    /\ result = OkDecision(NoSuchNode, "why")
    /\ run_result = RunErr(InvalidDecision)

-----------------------------------------------------------------------------
(* Properties of parse_decision *)

\* The positions of s, from position from on, that lie in a think span: a
\* span runs from a <think> to the nearest </think> after it, and the next
\* span is looked for after that.
RECURSIVE ThinkSpanPositions(_, _)
ThinkSpanPositions(s, from) ==
    LET i == IndexFrom(s, TO, from)
        j == IF i = 0 THEN 0 ELSE IndexFrom(s, TC, i + 1)
    IN IF i = 0 \/ j = 0 THEN {}
       ELSE (i..j) \cup ThinkSpanPositions(s, j + 1)

\* The subsequence of s at the positions in keep
RECURSIVE Keep(_, _, _)
Keep(s, keep, k) ==
    IF k > Len(s) THEN <<>>
    ELSE (IF k \in keep THEN <<s[k]>> ELSE <<>>) \o Keep(s, keep, k + 1)

\* s with every think span removed
WithoutThinkSpans(s) ==
    Join(Keep(s, (1..Len(s)) \ ThinkSpanPositions(s, 1), 1))

HasThinkSpan(s) == ThinkSpanPositions(s, 1) # {}

TopLevel(s) == (1..Len(s)) \ ThinkSpanPositions(s, 1)

\* The think tags of s, in order
RECURSIVE TagsOf(_)
TagsOf(s) ==
    IF s = <<>> THEN <<>>
    ELSE (IF Head(s) \in {TO, TC} THEN <<Head(s)>> ELSE <<>>) \o TagsOf(Tail(s))

\* Every <think> is closed by the next tag and every </think> closes one: the
\* tags of s make think spans and nothing else.
ThinkBalanced(s) ==
    LET tags == TagsOf(s)
    IN /\ Len(tags) % 2 = 0
       /\ \A i \in 1..Len(tags) : tags[i] = (IF i % 2 = 1 THEN TO ELSE TC)

\* The flat JSON objects with the string fields decision and reason that the
\* raw texts hold, the values they give, and the other JSON objects
DecisionObjects == {"OBJ_A", "OBJ_B", "OBJ_BRACE"}
BraceFreeDecisionObjects == {"OBJ_A", "OBJ_B"}
OtherObjectTexts == {Expand("OBJ_NOREASON"), Expand("OBJ_NUM"), <<LB, RB>>}
ValuesOf(piece) ==
    CASE piece = "OBJ_A" -> OkDecision("A", "ra")
      [] piece = "OBJ_B" -> OkDecision("B", "rb")
      [] piece = "OBJ_BRACE" -> OkDecision("A", "x}y")

\* Text t stands in s from position i on, outside every think span.
OccursOutsideThink(s, t, i) ==
    /\ i + Len(t) - 1 <= Len(s)
    /\ SubSeq(s, i, i + Len(t) - 1) = t
    /\ i..(i + Len(t) - 1) \subseteq TopLevel(s)

ObjectsIn(s, objects) ==
    {<<i, o>> \in (1..Len(s)) \X objects : OccursOutsideThink(s, Expand(o), i)}

\* s is prose, think spans and one decision object outside them, and the
\* prose holds no JSON object.
OneObjectAmongProse(s) ==
    /\ ThinkBalanced(s)
    /\ Cardinality(ObjectsIn(s, DecisionObjects)) = 1
    /\ \A i \in 1..Len(s) : \A t \in OtherObjectTexts : ~OccursOutsideThink(s, t, i)

TheObject(s) == CHOOSE io \in ObjectsIn(s, DecisionObjects) : TRUE

\* No brace outside the think spans but those that open and close the object,
\* and none in the object's values.
BraceFreeBut(s, io) ==
    /\ io[2] \in BraceFreeDecisionObjects
    /\ \A k \in TopLevel(s) :
         IsBrace(s[k]) => k \in {io[1], io[1] + Len(Expand(io[2])) - 1}

\* C9 as stated: for every raw text made of prose, think spans and a single
\* flat JSON object with string fields decision and reason, parse_decision
\* returns that object's decision and reason, whatever the prose holds.
C9_ReturnsTheObjectWhateverTheProse ==
    (pc = "parsed" /\ OneObjectAmongProse(raw)) =>
        result = ValuesOf(TheObject(raw)[2])

\* C9 as amended: the same, for prose outside the think spans that holds no
\* brace and an object whose values hold no brace.
C9_ReturnsTheObjectAmongBraceFreeProse ==
    (/\ pc = "parsed"
     /\ OneObjectAmongProse(raw)
     /\ BraceFreeBut(raw, TheObject(raw))) =>
        result = ValuesOf(TheObject(raw)[2])

C9_Witness ==
    /\ pc = "parsed"
    /\ pieces = <<"TO", "OBJ_A", "TC", "OBJ_B">>
    /\ result = OkDecision("B", "rb")


\* What is returned was read outside every think span of the raw text.
ReturnedFromOutsideThink ==
    result.ok =>
        \E k \in (1..Len(raw)) \ ThinkSpanPositions(raw, 1) :
            /\ raw[k] = StrMember("decision", result.decision)
            /\ \E m \in (1..Len(raw)) \ ThinkSpanPositions(raw, 1) :
                 raw[m] = StrMember("reason", result.reason)

\* C10 as stated: parse_decision(raw) equals parse_decision of raw with every
\* think span removed, and an object that is only inside a think span is
\* never the one returned.
C10_ThinkSpansNeverMatter ==
    pc = "parsed" =>
        /\ result = parse_decision(WithoutThinkSpans(raw))
        /\ ReturnedFromOutsideThink

\* C10 as amended: the same, for raw text in which removing the think spans
\* leaves no think span behind (no tag is put together by the removal).
C10_ThinkSpansDoNotMatterUnlessRemovalMakesOne ==
    pc = "parsed" =>
        /\ ~HasThinkSpan(WithoutThinkSpans(raw)) =>
             result = parse_decision(WithoutThinkSpans(raw))
        /\ ReturnedFromOutsideThink

C10_Witness ==
    /\ pc = "parsed"
    /\ pieces = <<"TO", "OBJ_B", "TC", "OBJ_A">>
    /\ WithoutThinkSpans(raw) = ObjText("A", "ra")
    /\ result = OkDecision("A", "ra")

\* Somewhere in s a { stands before a }.
HasBracePair(s) ==
    \E i \in 1..Len(s) : \E j \in (i + 1)..Len(s) : s[i] = LB /\ s[j] = RB

\* C11: for every raw text that holds no {...}, parse_decision fails with the
\* no-JSON-found error, and not with the malformed-JSON error.
C11_NoBracePairIsNoJsonFound ==
    (pc = "parsed" /\ ~HasBracePair(raw)) => result = ErrResult(NoJsonFound)

C11_Witness ==
    /\ pc = "parsed"
    /\ pieces = <<"RB", "TO", "P", "LB">>
    /\ result = ErrResult(NoJsonFound)

\* The first flat {...} of the text that is left of s once the think spans
\* are stripped; <<>> when there is none.
FirstFlatObject(s) ==
    LET cleaned == StripThink(s)
        m == FindJson(cleaned)
    IN IF m = <<0, 0>> THEN <<>> ELSE SubSeq(cleaned, m[1], m[2])

\* obj gives no string value for key: the field is missing or is no string.
LacksStringField(obj, key) ==
    ~\E i \in 1..Len(obj) : obj[i].kind = "string" /\ obj[i].key = key

\* A well-formed decision object stands in s outside the think spans, after
\* position from.
WellFormedObjectAfter(s, from) ==
    \E io \in ObjectsIn(s, BraceFreeDecisionObjects) : io[1] > from

\* C12: when the first flat {...} of the stripped text lacks the decision or
\* the reason field, or gives either a value that is no string,
\* parse_decision fails with the malformed-JSON error, also when a later
\* {...} of the same text is a well-formed decision object.
C12_FirstObjectMalformedIsMalformedJson ==
    (/\ pc = "parsed"
     /\ FirstFlatObject(raw) # <<>>
     /\ \/ LacksStringField(FirstFlatObject(raw), "decision")
        \/ LacksStringField(FirstFlatObject(raw), "reason")) =>
        result = ErrResult(MalformedJson)

C12_Witness ==
    /\ pc = "parsed"
    /\ pieces = <<"OBJ_NUM", "P", "OBJ_A">>
    /\ FirstFlatObject(raw) = Expand("OBJ_NUM")
    /\ WellFormedObjectAfter(raw, Len(Expand("OBJ_NUM")))
    /\ result = ErrResult(MalformedJson)

-----------------------------------------------------------------------------
(* Properties of total_steps *)

\* The option edges of t: from a node that is not terminal to a next id
Edge(t, a, b) ==
    /\ HasNode(t, a)
    /\ ~t.nodes[a].terminal
    /\ Contains(t.nodes[a].next_node_ids, b)

\* The paths of t from its start node along option edges
PathsFromStart(t) ==
    {p \in SeqsUpTo(DOMAIN t.nodes, MaxNodes) :
       /\ p # <<>>
       /\ p[1] = t.start_node_id
       /\ \A i \in 1..(Len(p) - 1) : Edge(t, p[i], p[i + 1])}

IsDecision(t, id) == HasNode(t, id) /\ ~t.nodes[id].terminal

DecisionNodesOn(t, p) == Cardinality({i \in 1..Len(p) : IsDecision(t, p[i])})

StartToTerminalPaths(t) ==
    {p \in PathsFromStart(t) : t.nodes[p[Len(p)]].terminal}

\* Number of Decision nodes on the longest path from start to a Terminal node
LongestStartToTerminal(t) ==
    Max({DecisionNodesOn(t, p) : p \in StartToTerminalPaths(t)})

\* Number of Decision nodes on the longest path from start, wherever it ends
LongestFromStart(t) ==
    Max({DecisionNodesOn(t, p) : p \in PathsFromStart(t)})

\* Every next id of t names a node of t (the invariant of the data model)
NoDanglingNextId(t) ==
    \A a \in DOMAIN t.nodes :
        \A i \in 1..Len(t.nodes[a].next_node_ids) :
            HasNode(t, t.nodes[a].next_node_ids[i])

\* Every Decision node of t has an option
NoDeadEnd(t) ==
    \A a \in DOMAIN t.nodes : IsDecision(t, a) => t.nodes[a].next_node_ids # <<>>

\* C13 as stated: on every tree with no cycle whose next ids all name nodes,
\* total_steps returns, and what it returns is the number of Decision nodes on
\* the longest path from the start node to a Terminal node.
C13_TotalStepsIsLongestStartToTerminal ==
    /\ <>(pc = "counted")
    /\ []((/\ pc = "counted"
           /\ NoDanglingNextId(tree)
           /\ StartToTerminalPaths(tree) # {}) =>
            total_steps = LongestStartToTerminal(tree))

\* C13 as amended: on every tree with no cycle total_steps returns the number
\* of Decision nodes on the longest path from the start node, wherever that
\* path ends; this is the longest path to a Terminal node when every Decision
\* node has an option and every next id names a node.
C13_TotalStepsIsLongestPathFromStart ==
    /\ <>(pc = "counted")
    /\ [](pc = "counted" =>
            /\ total_steps = LongestFromStart(tree)
            /\ total_steps = tree_total_steps(tree)
            /\ (NoDanglingNextId(tree) /\ NoDeadEnd(tree)) =>
                 total_steps = LongestStartToTerminal(tree))

\* START offers A and B, A offers B, B is terminal: the longer path counts.
C13_Witness ==
    /\ pc = "counted"
    /\ tree.nodes["START"].next_node_ids = <<"A", "B">>
    /\ tree.nodes["A"].next_node_ids = <<"B">>
    /\ ~tree.nodes["A"].terminal
    /\ tree.nodes["B"].terminal
    /\ total_steps = 2

-----------------------------------------------------------------------------
(* Properties of generate *)

\* C14: every call of generate returns, with the accumulated text or with an
\* error; it samples at most max_tokens tokens and decodes at most max_tokens
\* of them after the prompt batch, and the output is made of at most
\* max_tokens decoded pieces.
C14_GenerateTerminatesWithinMaxTokens ==
    /\ (gen_pc # "idle") ~> (gen_pc = "idle")
    /\ [](/\ Len(sampled) <= max_tokens
          /\ iter <= max_tokens
          /\ Len(decoded) <= max_tokens
          /\ output = Flatten(decoded)
          /\ (gen_pc = "idle" /\ last_end # "none") =>
               \/ gen_result = GenOk(output)
               \/ ~gen_result.ok /\ gen_result.err \in GenerateErrors)

\* the loop ran max_tokens times without an end marker
C14_Witness ==
    /\ gen_pc = "idle"
    /\ max_tokens = MaxTokens
    /\ last_end = "max_tokens"
    /\ Len(decoded) = max_tokens
    /\ iter = max_tokens
    /\ gen_result = GenOk(output)

\* C15: when generate decodes the prompt batch, the context holds no
\* key-value state: nothing of an earlier call is left in it, however that
\* call ended.
C15_PromptDecodedOnClearedContext ==
    gen_pc = "decode_prompt" => kv_cache = <<>>

\* the call before ended with an error in the middle of decoding
C15_Witness ==
    /\ gen_pc = "decode_prompt"
    /\ last_end = "error in decoding"
    /\ Len(batch) = MaxPrompt
    /\ kv_cache = <<>>

\* The text that the streaming decoder makes of the tokens toks, in order
RECURSIVE TextOf(_, _)
TextOf(toks, pending) ==
    IF toks = <<>> THEN <<>>
    ELSE LET p == token_to_piece(Head(toks), pending)
         IN p.piece \o TextOf(Tail(toks), p.pending)

\* The tokens sampled before the latest one
SampledBefore == SubSeq(sampled, 1, Len(sampled) - 1)

\* The context after the prompt and the first n sampled tokens were decoded:
\* each token once, at the position after the one before it
ContextAfter(n) ==
    [k \in 1..(Len(tokens) + n) |->
       [tok |-> IF k <= Len(tokens) THEN tokens[k] ELSE sampled[k - Len(tokens)],
        pos |-> k - 1,
        stale |-> FALSE]]

\* C18: sampling the end marker ends the loop with success, and the text
\* returned is the text of the tokens sampled before the marker, in order
\* (empty when the marker is the first token sampled); every other token
\* sampled is decoded as a batch of its own before the next token is sampled.
C18_EndMarkerStopsAndTokensAreFedBack ==
    /\ (sampled # <<>> /\ is_eog_token(sampled[Len(sampled)])) =>
         /\ gen_pc = "idle"
         /\ last_end = "end marker"
         /\ \A k \in 1..(Len(sampled) - 1) : ~is_eog_token(sampled[k])
         /\ gen_result = GenOk(TextOf(SampledBefore, FALSE))
         /\ Len(sampled) = 1 => gen_result = GenOk(<<>>)
    /\ last_end = "end marker" =>
         (gen_pc # "idle" \/ is_eog_token(sampled[Len(sampled)]))
    /\ (gen_pc = "loop" /\ sampled # <<>>) =>
         /\ batch = <<BatchEntry(sampled[Len(sampled)],
                                 Len(tokens) + Len(sampled) - 1, TRUE)>>
         /\ kv_cache = ContextAfter(Len(sampled))

C18_Witness ==
    /\ gen_pc = "idle"
    /\ sampled = <<T_LEAD, T_CONT, EOG>>
    /\ gen_result = GenOk(<<"e_acute">>)
    /\ kv_cache = ContextAfter(2)

-----------------------------------------------------------------------------
(* Properties of the round and of the judge's messages *)

\* C16: every round starts with current_node_id at the tree's start id, an
\* empty conversation and steps_completed 0, the first round and every round
\* after a restart alike; the tree is the same in every round and no step
\* changes it.
C16_EveryRoundStartsFresh ==
    /\ (round = 1 /\ current_node_id = tree.start_node_id
        /\ conversation = <<>> /\ steps_completed = 0)
    /\ [][round' # round =>
            /\ round' = round + 1
            /\ outcome.kind \in {"Finished", "Quit"}
            /\ current_node_id' = tree.start_node_id
            /\ conversation' = <<>>
            /\ steps_completed' = 0
            /\ total_steps' = total_steps
            /\ pc' = "enter"]_vars
    /\ [][tree' = tree]_vars

\* a second round has begun
C16_Witness ==
    /\ round = 2
    /\ pc = "enter"
    /\ current_node_id = tree.start_node_id
    /\ conversation = <<>>
    /\ steps_completed = 0
    /\ outcome = NoOutcome

C19_StepsCountJudgedMoves ==
    [][round' = round =>
         /\ steps_completed' >= steps_completed
         /\ steps_completed' # steps_completed =>
              /\ steps_completed' = steps_completed + 1
              /\ pc = "judge"
              /\ judge_calls' = judge_calls + 1
              /\ judged'.result.ok
              /\ Contains(current_node.next_node_ids, current_node_id')
         /\ pc \in {"enter", "read", "restart"} =>
              steps_completed' = steps_completed]_vars

\* two judged moves, then an empty line at the third node
C19_Witness ==
    /\ steps_completed = 2
    /\ judge_calls = 2
    /\ current_node_id = "QUESTION_PURPOSE"
    /\ input = <<"\n">>
    /\ pc = "enter"

\* The position of piece x in text, 0 when it is not there
PositionOf(text, x) ==
    IF \E i \in 1..Len(text) : text[i] = x
    THEN Min({i \in 1..Len(text) : text[i] = x})
    ELSE 0

\* The ids that a judge instruction lists: what stands between "Pick one: "
\* and the reply instruction, without the separators
RECURSIVE WithoutSeparators(_)
WithoutSeparators(text) ==
    IF text = <<>> THEN <<>>
    ELSE (IF Head(text) = ", " THEN <<>> ELSE <<Head(text)>>)
         \o WithoutSeparators(Tail(text))

OptionsListed(text) ==
    WithoutSeparators(SubSeq(text, PositionOf(text, PickOne) + 1,
                             PositionOf(text, ReplyWithJson) - 1))

\* The system_context of the nodes of the tree other than id
OtherCriteria(id) ==
    {tree.nodes[other].system_context[1] :
       other \in {o \in DOMAIN tree.nodes \ {id} : tree.nodes[o].system_context # <<>>}}

\* C20: the system message of a judge call is made of the node the walker is
\* at and of nothing else: it holds that node's system_context when it has
\* one, lists the node's next ids in the authored order, and holds the
\* criteria of no other node; valid_choices are the node's next ids.
C20_JudgeInstructionIsOfTheCurrentNode ==
    pc = "judge" =>
        LET text == messages[1].content
            node == tree.nodes[current_node_id]
        IN /\ messages[1] =
                ChatMessage_system(<<SYSTEM_PROMPT, " \n ">> \o build_judge_instruction(node))
           /\ node.system_context # <<>> =>
                /\ PositionOf(text, node.system_context[1]) # 0
                /\ PositionOf(text, node.system_context[1]) < PositionOf(text, PickOne)
           /\ PositionOf(text, PickOne) # 0
           /\ PositionOf(text, ReplyWithJson) = Len(text)
           /\ OptionsListed(text) = node.next_node_ids
           /\ \A criteria \in OtherCriteria(current_node_id) :
                PositionOf(text, criteria) = 0
           /\ valid_choices = node.next_node_ids

\* the second node of the airport scenario, after START was judged
C20_Witness ==
    /\ pc = "judge"
    /\ tree = airport_security_scenario
    /\ current_node_id = "PASSPORT_CHECK"
    /\ judge_calls = 1
    /\ OptionsListed(messages[1].content) = <<"QUESTION_PURPOSE", "FAILED">>
    /\ PositionOf(messages[1].content, tree.nodes["START"].system_context[1]) = 0
    /\ valid_choices = <<"QUESTION_PURPOSE", "FAILED">>

-----------------------------------------------------------------------------
(* Properties of trees and of the run on any tree *)

StartExists(t) == HasNode(t, t.start_node_id)

TerminalsHaveNoOptions(t) ==
    \A id \in DOMAIN t.nodes : t.nodes[id].terminal => t.nodes[id].next_node_ids = <<>>

\* C21: in the airport scenario that main loads, the start id and every next
\* id of a Decision node are keys of the node map, and no Terminal node has
\* options.
C21_BuiltInScenarioIsWellFormed ==
    tree = airport_security_scenario_of_main =>
        /\ StartExists(tree)
        /\ NoDanglingNextId(tree)
        /\ TerminalsHaveNoOptions(tree)

\* C22: on a graph with a dangling next id or a missing start node the run is
\* aborted before any turn: no guard line is shown, no line of the player is
\* read, the judge is not called, and no round has an outcome.
C22_BrokenGraphAbortsBeforeAnyTurn ==
    (~StartExists(tree) \/ ~NoDanglingNextId(tree)) =>
        /\ conversation = <<>>
        /\ input = <<>>
        /\ judge_calls = 0
        /\ outcome = NoOutcome

\* A path of option edges from the start node of t that comes back to a node
\* it has passed: a cycle among Decision nodes that the start node leads to
ReachableCycle(t) ==
    \E p \in PathsFromStart(t) :
        \E i, j \in 1..Len(p) : i < j /\ p[i] = p[j]

\* C23: on a graph in which a cycle among Decision nodes is reachable from the
\* start node, total_steps never returns (the recursion goes on until the
\* stack is exhausted), and play_round never reaches its first turn: no guard
\* line, no line read, no judge call, no outcome.
C23_ReachableCycleKeepsTotalStepsFromReturning ==
    ReachableCycle(tree) =>
        /\ pc \in {"count", "exited"}
        /\ pc = "exited" => run_result = RunErr("abort: stack overflow")
        /\ conversation = <<>>
        /\ input = <<>>
        /\ judge_calls = 0
        /\ outcome = NoOutcome

\* total_steps is in a call on a node that an enclosing call is already on
C23_Witness ==
    /\ ReachableCycle(tree)
    /\ pc = "count"
    /\ \E i, j \in 1..Len(stack) : i < j /\ stack[i].node_id = stack[j].node_id

-----------------------------------------------------------------------------
(* The run on every graph that satisfies the structural invariants: the trees
   of up to MaxNodes nodes with no cycle, and one with a cycle *)

ValidTrees ==
    {t \in AcyclicTrees : StartExists(t) /\ NoDanglingNextId(t) /\ NoDeadEnd(t)}

ValidTreeInit == PlayRoundInit(ValidTrees \cup {cyclic_scenario})

SpecValidTree == ValidTreeInit /\ [][AnyTreeNext]_vars

\* In a round: counting the steps, or in the loop of play_round
Playing == pc \in {"count", "counted", "enter", "read", "judge"}

\* C24: on a graph with a start node, no dangling next id and an option at
\* every Decision node, current_node_id is a key of the graph in every state
\* of play_round and the node judged has a first option, so neither unwrap of
\* the walker panics.
C24_WalkerNeverUnwrapsNone ==
    (StartExists(tree) /\ NoDanglingNextId(tree) /\ NoDeadEnd(tree)) =>
        /\ Playing \/ pc = "restart" => HasNode(tree, current_node_id)
        /\ pc = "judge" => valid_choices # <<>> /\ current_node.next_node_ids # <<>>
        /\ pc = "judge" => HasNode(tree, current_node.next_node_ids[1])
        /\ run_result # RunErr("panic: unwrap on None")

\* the walker has moved on a judged decision and is at the node it named
C24_Witness ==
    /\ tree \in ValidTrees
    /\ pc = "read"
    /\ steps_completed = 1
    /\ current_node_id # tree.start_node_id
    /\ judged.result.ok

\* C25: on a valid graph with no cycle, steps_completed never exceeds
\* total_steps in a round (and is below it whenever the judge is about to be
\* called), so the score of a Finished outcome never exceeds its denominator.
C25_StepsNeverExceedTotalSteps ==
    tree \in ValidTrees =>
        /\ pc \in {"enter", "read", "judge", "restart"} => steps_completed <= total_steps
        /\ pc = "judge" => steps_completed < total_steps
        /\ outcome.kind = "Finished" => outcome.steps_completed <= outcome.total_steps

\* a round finished on a path shorter than the longest: score 1 of 2
C25_Witness ==
    /\ tree \in ValidTrees
    /\ pc = "restart"
    /\ outcome.kind = "Finished"
    /\ outcome.steps_completed = 1
    /\ outcome.total_steps = 2

-----------------------------------------------------------------------------
(* Properties of the conversation *)

\* The nodes of the tree whose transcript is the content
NodesSaying(content) ==
    {id \in DOMAIN tree.nodes : ChatMessage_assistant(tree.nodes[id].transcript).content = content}

\* C26: at every judge call the conversation alternates Assistant, User, ...,
\* begins with the start node's transcript, ends with the player's latest
\* reply and holds 2 * (steps_completed + 1) messages, whatever empty lines
\* were read; its Assistant messages are the transcripts of the nodes
\* visited, in order: each is of a node that the one before offers, the last
\* is of the current node, and what a judge call has seen is never rewritten
\* in the round.
C26_ConversationAtJudgeCall ==
    /\ [](pc = "judge" =>
            /\ Len(conversation) = 2 * (steps_completed + 1)
            /\ \A i \in 1..Len(conversation) :
                 conversation[i].role = (IF i % 2 = 1 THEN "assistant" ELSE "user")
            /\ conversation[1] =
                 ChatMessage_assistant(tree.nodes[tree.start_node_id].transcript)
            /\ conversation[Len(conversation)] = ChatMessage_user(Trim(input))
            /\ Trim(input) # <<>>
            /\ conversation[Len(conversation) - 1] =
                 ChatMessage_assistant(current_node.transcript)
            /\ \A i \in 1..steps_completed :
                 \E a \in NodesSaying(conversation[2 * i - 1].content) :
                   \E b \in NodesSaying(conversation[2 * i + 1].content) :
                     Edge(tree, a, b))
    /\ [][(round' = round /\ pc \in {"enter", "read", "judge"}) =>
            /\ Len(conversation') >= 2 * steps_completed
            /\ \A i \in 1..(2 * steps_completed) : conversation'[i] = conversation[i]]_vars

\* the third judge call of a round
C26_Witness ==
    /\ pc = "judge"
    /\ steps_completed = 2
    /\ Len(conversation) = 6
    /\ current_node_id = "QUESTION_PURPOSE"
    /\ conversation[1].content = tree.nodes["START"].transcript
    /\ conversation[3].content = tree.nodes["PASSPORT_CHECK"].transcript

-----------------------------------------------------------------------------
(* Properties of the positions that generate submits *)

\* The tokens of the batch stand at the positions from first on, one by one
ContiguousFrom(b, first) == \A k \in 1..Len(b) : b[k].pos = first + k - 1

\* What is true of the positions whatever the capacity: the context holds the
\* tokens of the call at positions 0, 1, 2, ..., the prompt batch goes from 0,
\* and a sampled token goes at the position after the last one decoded.
ContiguousPositions ==
    /\ ContiguousFrom(kv_cache, 0)
    /\ gen_pc \in {"batch", "decode_prompt"} => ContiguousFrom(batch, 0)
    /\ gen_pc = "decode_step" =>
         /\ Len(batch) = 1
         /\ batch[1].tok = sampled[Len(sampled)]
         /\ batch[1].pos = Len(kv_cache)
         /\ batch[1].pos = Len(tokens) + Len(sampled) - 1
    /\ gen_pc = "loop" => n_cur = Len(kv_cache)

\* A prompt of more than n_ctx tokens fails before anything is decoded
LongPromptFailsBeforeDecoding ==
    Len(tokens) > n_ctx =>
        /\ gen_pc \in {"batch", "idle"}
        /\ kv_cache = <<>>
        /\ gen_pc = "idle" =>
              /\ gen_result = GenErr("batch add failed")
              /\ last_end = "error before decoding"

\* C27 as stated: the tokens of a call are submitted at the positions 0, 1,
\* 2, ..., the prompt first and then each generated token at the next
\* position; a prompt of more than n_ctx tokens fails before decoding, and no
\* token is put in a batch at a position of n_ctx or more.
C27_NoTokenSubmittedBeyondContext ==
    /\ ContiguousPositions
    /\ LongPromptFailsBeforeDecoding
    /\ \A k \in 1..Len(batch) : batch[k].pos < n_ctx

\* C27 amended: the positions are contiguous and a long prompt fails before
\* decoding; a generated token is submitted at position n_ctx when the prompt
\* and the tokens generated so far fill the context, and it is the decode of
\* that batch that fails and ends the call with the decode error; the context
\* never holds a token at a position of n_ctx or more.
C27_TokenBeyondContextFailsInDecode ==
    /\ [](/\ ContiguousPositions
          /\ LongPromptFailsBeforeDecoding
          /\ Len(kv_cache) <= n_ctx
          /\ \A k \in 1..Len(kv_cache) : kv_cache[k].pos < n_ctx
          /\ \A k \in 1..Len(batch) : batch[k].pos <= n_ctx)
    /\ [][(gen_pc = "decode_step" /\ batch[1].pos >= n_ctx) =>
            /\ gen_pc' = "idle"
            /\ gen_result' = GenErr("decode step failed")
            /\ last_end' = "error in decoding"
            /\ kv_cache' = kv_cache]_vars

\* a call that generated a token and then submitted the next at position
\* n_ctx has ended with the decode error
C27_Witness ==
    /\ gen_pc = "idle"
    /\ gen_result = GenErr("decode step failed")
    /\ Len(sampled) = 2
    /\ Len(kv_cache) = n_ctx
    /\ batch # <<>>
    /\ batch[1].pos = n_ctx
    /\ iter < max_tokens

-----------------------------------------------------------------------------
(* The round under fair scheduling *)

\* The steps that the program takes by itself: play_round runs on one thread
\* and the judge call returns
ProgramStep ==
    \/ LongestPathEnter
    \/ LongestPathDescendInStack
    \/ LongestPathReturn
    \/ StackOverflow
    \/ BeginRound
    \/ EnterNode
    \/ \E gen \in GenerateResults(tree) : Judge(gen)

\* read_line at the prompt of a node returns: with a line, or with an error
PlayerAnswers ==
    \/ \E line \in PlayerLines : ReadInput(line)
    \/ ReadInputFails

SpecValidTreeFair ==
    ValidTreeInit /\ [][AnyTreeNext]_vars /\ WF_vars(ProgramStep) /\ WF_vars(PlayerAnswers)

\* An empty line is read at the prompt of a node
ReadsEmptyLine == \E line \in EmptyLines : ReadInput(line)

\* The round is over: it has an outcome, or the run has ended with an error
RoundOver == pc \in {"restart", "exited"}

\* At every prompt the player comes to supply a line that is not empty (or
\* the read fails)
NonEmptyLineAtEveryPrompt == (pc = "read") ~> (pc \in {"judge", "restart", "exited"})

====
